---- MODULE Spec2Model ----
(***************************************************************************)
(* A model of the user-space TCP endpoint of src/src/main.rs (the packet   *)
(* loop and the connection map) and src/src/tcp.rs (Connection::accept,    *)
(* Connection::on_packet, Connection::write, is_between_wrapped).          *)
(*                                                                         *)
(* u32 values are kept at their full width.  TLC's integers are 32-bit     *)
(* signed, so a u32 is a pair <<hi, lo>> of 16-bit halves and the wrapping *)
(* operations carry between the halves.  u16 values are plain naturals.    *)
(*                                                                         *)
(* nic.send and nic.recv are taken to succeed: an Err from either leaves   *)
(* main through `?` and ends the process (src/src/main.rs:19,52,60).       *)
(***************************************************************************)
EXTENDS Integers, Sequences, FiniteSets, TLC

-----------------------------------------------------------------------------
(* Bounds of the model *)

\* payload lengths of inbound segments range over 0..MaxPayload
MaxPayload == 1

\* payload lengths of inbound SYNs range over 0..MaxSynPayload
MaxSynPayload == 2

\* SpecLong stops counting a connection's accepted segments here
MaxAccepted == 32800

\* how many further segments a peer is given to drive a connection on
DriveDepth == 2

\* the four-tuples that frames arrive for
Quads == {"q1"}

\* the four-tuples that frames arrive for in SpecMap
MapQuads == {"q1", "q2"}

-----------------------------------------------------------------------------
(* u32 arithmetic *)

Half == 2^16

U32 == (0 .. Half - 1) \X (0 .. Half - 1)

\* the u32 with value n, for 0 <= n < 2^31
u32(n) == <<n \div Half, n % Half>>

U32_MAX == <<Half - 1, Half - 1>>

\* u32::wrapping_add
wrapping_add(a, b) ==
    LET lo == a[2] + b[2]
        hi == a[1] + b[1] + (lo \div Half)
    IN  <<hi % Half, lo % Half>>

\* u32::wrapping_sub
wrapping_sub(a, b) ==
    LET lo == a[2] - b[2]
        borrow == IF lo < 0 THEN 1 ELSE 0
        hi == a[1] - b[1] - borrow
    IN  <<hi % Half, lo % Half>>

\* the `+` of u32 overflows (panics when the build has overflow checks on)
add_overflows(a, b) ==
    a[1] + b[1] + ((a[2] + b[2]) \div Half) >= Half

\* Ord for u32: start.cmp(&x) == Less
u32_lt(a, b) == a[1] < b[1] \/ (a[1] = b[1] /\ a[2] < b[2])

u32_le(a, b) == a = b \/ u32_lt(a, b)

\* wrapped ordering: a is at or before b when b - a (mod 2^32) < 2^31
WrappedLe(a, b) == wrapping_sub(b, a)[1] < 2^15

WrappedLt(a, b) == a # b /\ WrappedLe(a, b)

\* the test as it would be with no wraparound: start < x < end
is_between_raw(start, x, end) == u32_lt(start, x) /\ u32_lt(x, end)

\* fn is_between_wrapped(start: u32, x: u32, end: u32) -> bool
is_between_wrapped(start, x, end) ==
    IF start = x THEN FALSE
    ELSE IF u32_lt(start, x)
         THEN ~(u32_le(start, end) /\ u32_le(end, x))
         ELSE u32_lt(end, start) /\ u32_lt(x, end)

-----------------------------------------------------------------------------
(* Connection state *)

\* enum State
SyncRcvd == "SyncRcvd"
Estab == "Estab"
FinWait1 == "FinWait1"
FinWait2 == "FinWait2"
CloseWait == "CloseWait"
TimeWait == "TimeWait"

\* State::is_synchonized
is_synchonized(state) ==
    IF state \in {Estab, FinWait1, FinWait2, CloseWait, TimeWait} THEN TRUE
    ELSE FALSE

\* the segment that Connection::write serialises from the prototype header
\* self.tcp: the header as it is at self.tcp.write, before the flags are
\* cleared.  write sets tcp.sequence_number and tcp.acknowledgment_number from
\* send.nxt and recv.nxt before every use, so the prototype keeps only its
\* flags and window between calls.
WrittenSegment(c, payload_bytes) ==
    [seq |-> c.send.nxt,
     ackn |-> c.recv.nxt,
     syn |-> c.tcp.syn,
     ack |-> c.tcp.ack,
     fin |-> c.tcp.fin,
     wnd |-> c.tcp.window_size,
     len |-> payload_bytes]

\* send.nxt after Connection::write: the payload bytes, then one for a SYN
\* and one for a FIN of the prototype header
NxtAfterWrite(c, payload_bytes) ==
    LET n0 == wrapping_add(c.send.nxt, u32(payload_bytes))
        n1 == IF c.tcp.syn THEN wrapping_add(n0, u32(1)) ELSE n0
        n2 == IF c.tcp.fin THEN wrapping_add(n1, u32(1)) ELSE n1
    IN  n2

\* write as it would be if the SYN and FIN of the prototype header were
\* counted but left set
write_keeps_flags(c, payload_bytes) ==
    [c |-> [c EXCEPT !.send.nxt = NxtAfterWrite(c, payload_bytes)],
     seg |-> WrittenSegment(c, payload_bytes)]

\* fn write(&mut self, nic, payload): the connection after the call and the
\* segment handed to nic.send
write(c, payload_bytes) ==
    [c |-> [c EXCEPT !.send.nxt = NxtAfterWrite(c, payload_bytes),
                     !.tcp.syn = FALSE,
                     !.tcp.fin = FALSE],
     seg |-> WrittenSegment(c, payload_bytes)]

-----------------------------------------------------------------------------
(* Connection::accept *)

\* let iss = 0;
accept_iss == 0

\* let wnd = 1024;
accept_wnd == 1024

\* the Connection literal of accept, with c.tcp.syn and c.tcp.ack set; recv.nxt
\* is handed in because its `+` is checked apart
NewConnection(seg, recv_nxt) ==
    [state |-> SyncRcvd,
     send |-> [iss |-> u32(accept_iss),
               una |-> u32(accept_iss),
               nxt |-> wrapping_add(u32(accept_iss), u32(1)),
               wnd |-> accept_wnd,
               up |-> FALSE,
               wl1 |-> 0,
               wl2 |-> 0],
     recv |-> [irs |-> seg.seq,
               nxt |-> recv_nxt,
               wnd |-> seg.wnd,
               up |-> FALSE],
     tcp |-> [window_size |-> accept_wnd,
              syn |-> TRUE,
              ack |-> TRUE,
              fin |-> FALSE]]

\* accept as it would be without the test of tcph.syn()
accept_any(seg, checks) ==
    IF checks /\ add_overflows(seg.seq, u32(1))
    THEN [kind |-> "panic", why |-> "overflow"]
    ELSE LET c == NewConnection(seg, wrapping_add(seg.seq, u32(1)))
             w == write(c, 0)
         IN  [kind |-> "some", c |-> w.c, out |-> <<w.seg>>]

\* pub(crate) fn accept(nic, iph, tcph, data) -> io::Result<Option<Self>>
\* kind "none": Ok(None); "some": Ok(Some(c)), with the segments sent;
\* "panic": `tcph.sequence_number() + 1` overflowed in a build that checks
accept(seg, checks) ==
    IF ~seg.syn
    THEN [kind |-> "none"]
    ELSE IF checks /\ add_overflows(seg.seq, u32(1))
    THEN [kind |-> "panic", why |-> "overflow"]
    ELSE LET c == NewConnection(seg, wrapping_add(seg.seq, u32(1)))
             w == write(c, 0)
         IN  [kind |-> "some", c |-> w.c, out |-> <<w.seg>>]

-----------------------------------------------------------------------------
(* Connection::on_packet *)

\* slen: data.len(), plus one for FIN, plus one for ACK
SegLen(seg) ==
    seg.len + (IF seg.fin THEN 1 ELSE 0) + (IF seg.ack THEN 1 ELSE 0)

\* the receive test as it would be with the raw `<` of u32 in place of
\* is_between_wrapped
Acceptable_raw(recv, seqn, slen) ==
    LET wend == wrapping_add(recv.nxt, u32(recv.wnd))
    IN  IF slen = 0
        THEN IF recv.wnd = 0
             THEN seqn = recv.nxt
             ELSE u32_lt(seqn, wend)
        ELSE IF recv.wnd = 0
             THEN FALSE
             ELSE u32_lt(seqn, wend)
                  \/ u32_lt(wrapping_add(seqn, u32(slen - 1)), wend)

\* okay: the segment receive test
Acceptable(recv, seqn, slen) ==
    LET wend == wrapping_add(recv.nxt, u32(recv.wnd))
        start == wrapping_sub(recv.nxt, u32(1))
    IN  IF slen = 0
        THEN IF recv.wnd = 0
             THEN seqn = recv.nxt
             ELSE is_between_wrapped(start, seqn, wend)
        ELSE IF recv.wnd = 0
             THEN FALSE
             ELSE ~(  ~is_between_wrapped(start, seqn, wend)
                   /\ ~is_between_wrapped(start,
                                          wrapping_add(seqn, u32(slen - 1)),
                                          wend))

\* the test that takes SyncRcvd to Estab
SynAcked(send, ackn) ==
    is_between_wrapped(wrapping_sub(send.una, u32(1)), ackn,
                       wrapping_add(send.nxt, u32(1)))

\* the test as it would be without the upper end send.nxt + 1
AckAcceptable_unbounded(send, ackn) ==
    ackn # send.una /\ WrappedLe(send.una, ackn)

\* the test on the acknowledgment number in Estab, FinWait1 and FinWait2
AckAcceptable(send, ackn) ==
    is_between_wrapped(send.una, ackn, wrapping_add(send.nxt, u32(1)))

\* the step as it would be without the test of the state
HandshakeStep_any_state(c, ackn) ==
    IF SynAcked(c.send, ackn)
    THEN [c EXCEPT !.state = Estab]
    ELSE c

\* if let State::SyncRcvd = self.state { ... }
HandshakeStep(c, ackn) ==
    IF c.state = SyncRcvd /\ SynAcked(c.send, ackn)
    THEN [c EXCEPT !.state = Estab]
    ELSE c

\* if let State::FinWait1 = self.state { ... }
FinAckedStep(c) ==
    IF c.state = FinWait1
       /\ c.send.una = wrapping_add(c.send.iss, u32(2))
    THEN [c EXCEPT !.state = FinWait2]
    ELSE c

\* if tcph.fin() { match self.state { ... } }, after `out` was sent
PeerFinStep(c, seg, out) ==
    IF ~seg.fin
    THEN [c |-> c, out |-> out, why |-> "ok"]
    ELSE IF c.state = FinWait2
    THEN LET w == write(c, 0)
         IN  [c |-> [w.c EXCEPT !.state = TimeWait],
              out |-> Append(out, w.seg),
              why |-> "ok"]
    ELSE [c |-> c, out |-> out, why |-> "unimplemented"]

\* if let State::Estab | State::FinWait1 | State::FinWait2 = self.state
\* { ... }, and what follows it
AckStep(c, seg) ==
    IF c.state \in {Estab, FinWait1, FinWait2}
    THEN IF ~AckAcceptable(c.send, seg.ackn)
         THEN [c |-> c, out |-> <<>>, why |-> "ok"]
         ELSE LET c1 == [c EXCEPT !.send.una = seg.ackn]
              IN  IF seg.len # 0
                  THEN [c |-> c1, out |-> <<>>, why |-> "assert"]
                  ELSE IF c1.state = Estab
                  THEN LET w == write([c1 EXCEPT !.tcp.fin = TRUE], 0)
                           c2 == [w.c EXCEPT !.state = FinWait1]
                       IN  PeerFinStep(FinAckedStep(c2), seg, <<w.seg>>)
                  ELSE PeerFinStep(FinAckedStep(c1), seg, <<>>)
    ELSE PeerFinStep(FinAckedStep(c), seg, <<>>)

\* pub(crate) fn on_packet(&mut self, nic, iph, tcph, data) -> io::Result<()>
\* c: the connection when the call ends; out: the segments sent, in order;
\* why: "ok" for a return of Ok(()), else the panic that ended the call
on_packet(c, seg) ==
    LET slen == SegLen(seg)
    IN  IF ~Acceptable(c.recv, seg.seq, slen)
        THEN LET w == write(c, 0)
             IN  [c |-> w.c, out |-> <<w.seg>>, why |-> "ok"]
        ELSE LET c1 == [c EXCEPT !.recv.nxt = wrapping_add(seg.seq, u32(slen))]
             IN  IF ~seg.ack
                 THEN [c |-> c1, out |-> <<>>, why |-> "ok"]
                 ELSE AckStep(HandshakeStep(c1, seg.ackn), seg)

-----------------------------------------------------------------------------
(* Inbound frames *)

\* a parsed TCP header and the length of the payload after it
Segment(syn, ack, fin, seq, ackn, wnd, len) ==
    [syn |-> syn, ack |-> ack, fin |-> fin,
     seq |-> seq, ackn |-> ackn, wnd |-> wnd, len |-> len]

\* the sequence numbers and windows of the SYNs that arrive
SynSeqs == {u32(1000), U32_MAX}

SynWnds == {0, 5840}

\* the sequence and acknowledgment numbers of the other segments
SegSeqs == {u32(0), u32(1001), u32(1002), u32(9999)}

SegAcks == {u32(0), u32(1), u32(2), u32(3), u32(4)}

SynSegments ==
    {Segment(TRUE, FALSE, FALSE, s, u32(0), w, n) :
        s \in SynSeqs, w \in SynWnds, n \in 0 .. MaxSynPayload}

AckSegments ==
    {Segment(FALSE, TRUE, f, s, a, 5840, n) :
        f \in BOOLEAN, s \in SegSeqs, a \in SegAcks, n \in 0 .. MaxPayload}

PlainSegments ==
    {Segment(FALSE, FALSE, f, s, u32(0), 5840, n) :
        f \in BOOLEAN, s \in SegSeqs, n \in 0 .. MaxPayload}

Segments == SynSegments \cup AckSegments \cup PlainSegments

\* what main finds in buf after nic.recv
TcpFrame(q, seg) == [kind |-> "tcp", quad |-> q, seg |-> seg]

BadIpFrame == [kind |-> "bad_ip"]

\* an IPv4 frame whose protocol is not 0x06, such as UDP
BadProtocolFrame == [kind |-> "bad_protocol", protocol |-> 17]

BadTcpFrame == [kind |-> "bad_tcp"]

-----------------------------------------------------------------------------
(* The packet loop of main *)

VARIABLES
    connections,      \* HashMap<Quad, tcp::Connection>
    buf,              \* the frame of the latest nic.recv
    out,              \* the segments handed to nic.send while handling buf
    op,               \* the arm of main that handled buf
    halt,             \* "running", or the panic that ended the process
    overflow_checks,  \* whether the build panics on integer overflow
    progress,         \* per four-tuple, how far its frames follow Scenario
    accepted,         \* per four-tuple, the segments that passed the receive
                      \* test; counted in SpecLong only
    call,             \* the arguments of a call made outside the packet loop
    ret               \* what that call returned

vars == <<connections, buf, out, op, halt, overflow_checks, progress, accepted,
          call, ret>>

\* the handshake and close of the end-to-end scenarios 1 and 2
Scenario ==
    <<Segment(TRUE, FALSE, FALSE, u32(1000), u32(0), 5840, 0),
      Segment(FALSE, TRUE, FALSE, u32(1001), u32(1), 5840, 0),
      Segment(FALSE, TRUE, FALSE, u32(1001), u32(2), 5840, 0),
      Segment(FALSE, TRUE, TRUE, u32(1001), u32(2), 5840, 0)>>

\* progress[q] = k > 0: the frames for q so far are the first k of Scenario;
\* 0: none has come; -1: they are something else
Follow(k, seg) ==
    IF k >= 0 /\ k < Len(Scenario) /\ seg = Scenario[k + 1] THEN k + 1 ELSE -1

Init ==
    /\ connections = <<>>
    /\ buf = [kind |-> "none"]
    /\ out = <<>>
    /\ op = "start"
    /\ halt = "running"
    /\ overflow_checks \in BOOLEAN
    /\ progress = [q \in MapQuads |-> 0]
    /\ accepted = [q \in MapQuads |-> 0]
    /\ call = [fn |-> "none"]
    /\ ret = [kind |-> "none"]

\* Err(e) of Ipv4HeaderSlice::from_slice: "ignoring weird packet"
RecvBadIp ==
    /\ halt = "running"
    /\ buf' = BadIpFrame
    /\ op' = "bad_ip"
    /\ out' = <<>>
    /\ UNCHANGED <<connections, halt, overflow_checks, progress, accepted>>
    /\ UNCHANGED <<call, ret>>

\* iph.protocol() != 0x06: "BAD PROTOCOL", continue
RecvBadProtocol ==
    /\ halt = "running"
    /\ buf' = BadProtocolFrame
    /\ op' = "bad_protocol"
    /\ out' = <<>>
    /\ UNCHANGED <<connections, halt, overflow_checks, progress, accepted>>
    /\ UNCHANGED <<call, ret>>

\* Err(e) of TcpHeaderSlice::from_slice: "ignoring weird tcp packet"
RecvBadTcp ==
    /\ halt = "running"
    /\ buf' = BadTcpFrame
    /\ op' = "bad_tcp"
    /\ out' = <<>>
    /\ UNCHANGED <<connections, halt, overflow_checks, progress, accepted>>
    /\ UNCHANGED <<call, ret>>

\* Entry::Occupied(mut c) => c.get_mut().on_packet(...)?
OnPacketFrame(q, seg) ==
    /\ halt = "running"
    /\ q \in DOMAIN connections
    /\ LET r == on_packet(connections[q], seg)
       IN  /\ connections' = [connections EXCEPT ![q] = r.c]
           /\ out' = r.out
           /\ halt' = IF r.why = "ok" THEN "running" ELSE r.why
    /\ buf' = TcpFrame(q, seg)
    /\ op' = "on_packet"
    /\ progress' = [progress EXCEPT ![q] = Follow(@, seg)]
    /\ UNCHANGED <<overflow_checks, call, ret>>

RecvOccupied(q, seg) ==
    /\ OnPacketFrame(q, seg)
    /\ UNCHANGED accepted

\* the Vacant arm as it would be if the new connection replaced the map
RecvVacant_replacing(q, seg) ==
    /\ halt = "running"
    /\ q \notin DOMAIN connections
    /\ LET r == accept(seg, overflow_checks)
       IN  /\ connections' = IF r.kind = "some"
                             THEN (q :> r.c)
                             ELSE connections
           /\ out' = IF r.kind = "some" THEN r.out ELSE <<>>
           /\ halt' = IF r.kind = "panic" THEN r.why ELSE "running"
    /\ buf' = TcpFrame(q, seg)
    /\ op' = "accept"
    /\ progress' = [progress EXCEPT ![q] = Follow(@, seg)]
    /\ UNCHANGED accepted
    /\ UNCHANGED <<overflow_checks, call, ret>>

\* Entry::Vacant(e) => if let Some(c) = accept(...)? { e.insert(c); }
RecvVacant(q, seg) ==
    /\ halt = "running"
    /\ q \notin DOMAIN connections
    /\ LET r == accept(seg, overflow_checks)
       IN  /\ connections' = IF r.kind = "some"
                             THEN connections @@ (q :> r.c)
                             ELSE connections
           /\ out' = IF r.kind = "some" THEN r.out ELSE <<>>
           /\ halt' = IF r.kind = "panic" THEN r.why ELSE "running"
    /\ buf' = TcpFrame(q, seg)
    /\ op' = "accept"
    /\ progress' = [progress EXCEPT ![q] = Follow(@, seg)]
    /\ UNCHANGED accepted
    /\ UNCHANGED <<overflow_checks, call, ret>>

Next ==
    \/ RecvBadIp
    \/ RecvBadProtocol
    \/ RecvBadTcp
    \/ \E q \in Quads, seg \in Segments : RecvOccupied(q, seg)
    \/ \E q \in Quads, seg \in Segments : RecvVacant(q, seg)

Spec == Init /\ [][Next]_vars

-----------------------------------------------------------------------------
(* A long-lived connection: one peer that opens with the largest window and
   keeps sending at the far edge of the receive window *)

\* the peer's SYN, advertising the largest window
LongSyn == Segment(TRUE, FALSE, FALSE, u32(1000), u32(0), 65535, 0)

\* FIN+ACK at recv.nxt acknowledging the SYN and the FIN; an ACK on the last
\* sequence number of the window; an ACK on a sequence number long past
LongSegments(c) ==
    {Segment(FALSE, TRUE, TRUE, c.recv.nxt, u32(2), 65535, 0),
     Segment(FALSE, TRUE, FALSE,
             wrapping_add(c.recv.nxt, u32(c.recv.wnd - 1)), u32(3), 65535, 0),
     Segment(FALSE, TRUE, FALSE, u32(0), u32(3), 65535, 0)}

\* accept for the peer's SYN
LongOpen(q) ==
    /\ RecvVacant(q, LongSyn)

\* on_packet for one of LongSegments; the segments that pass the receive test
\* are counted, up to MaxAccepted
LongRecv(q, seg) ==
    /\ accepted[q] < MaxAccepted
    /\ OnPacketFrame(q, seg)
    /\ accepted' = [accepted EXCEPT ![q] =
                        IF Acceptable(connections[q].recv, seg.seq, SegLen(seg))
                        THEN @ + 1 ELSE @]

NextLong ==
    \/ \E q \in Quads : LongOpen(q)
    \/ \E q \in DOMAIN connections :
          \E seg \in LongSegments(connections[q]) : LongRecv(q, seg)

SpecLong == Init /\ [][NextLong]_vars

-----------------------------------------------------------------------------
(* Two four-tuples: the packet loop with the connections of two peers in the
   map, each peer sending a few kinds of segment *)

\* a SYN, the ACK of the handshake, an ACK and a FIN+ACK of the close, a
\* segment far outside the window, and a FIN without ACK
MapSegments ==
    {Segment(TRUE, FALSE, FALSE, u32(1000), u32(0), 5840, 0),
     Segment(FALSE, TRUE, FALSE, u32(1001), u32(1), 5840, 0),
     Segment(FALSE, TRUE, FALSE, u32(1002), u32(2), 5840, 0),
     Segment(FALSE, TRUE, TRUE, u32(1002), u32(3), 5840, 0),
     Segment(FALSE, TRUE, FALSE, u32(9999), u32(1), 5840, 0),
     Segment(FALSE, FALSE, TRUE, u32(1001), u32(0), 5840, 0)}

NextMap ==
    \/ RecvBadIp
    \/ RecvBadProtocol
    \/ RecvBadTcp
    \/ \E q \in MapQuads, seg \in MapSegments : RecvOccupied(q, seg)
    \/ \E q \in MapQuads, seg \in MapSegments : RecvVacant(q, seg)

SpecMap == Init /\ [][NextMap]_vars

-----------------------------------------------------------------------------
(* The two pure decisions, called on their own with arguments at and around
   the ends of the u32 range *)

\* the largest SEG.LEN of the calls of the receive test
MaxSegLen == 3

\* 0, 1, 2, 2^16 - 1, 2^16, 2^31 - 1, 2^31, 2^31 + 1, 2^32 - 2, 2^32 - 1
EdgeValues ==
    {<<0, 0>>, <<0, 1>>, <<0, 2>>, <<0, Half - 1>>, <<1, 0>>,
     <<2^15 - 1, Half - 1>>, <<2^15, 0>>, <<2^15, 1>>,
     <<Half - 1, Half - 2>>, <<Half - 1, Half - 1>>}

\* calls of is_between_wrapped(start, x, end), and a distance k to shift by
BetweenCalls ==
    {[fn |-> "is_between_wrapped", start |-> a, x |-> b, end |-> c, k |-> k] :
        a \in EdgeValues, b \in EdgeValues, c \in EdgeValues,
        k \in EdgeValues}

\* the values of recv.nxt, and of seg.seq - recv.nxt, of the receive tests
OkayNxts ==
    {<<0, 0>>, <<0, 1>>, <<2^15, 0>>, <<Half - 1, 1>>,
     <<Half - 1, Half - 2>>, <<Half - 1, Half - 1>>}

OkayOffsets ==
    {<<0, 0>>, <<0, 1>>, <<0, 2>>, <<0, 3>>, <<0, Half - 2>>,
     <<0, Half - 1>>, <<1, 0>>, <<Half - 1, Half - 3>>,
     <<Half - 1, Half - 2>>, <<Half - 1, Half - 1>>}

\* recv.wnd is a u16
OkayWnds == {0, 1, 2, 3, Half - 1}

\* the receive test of on_packet for recv.nxt, recv.wnd, seqn and slen
OkayCalls ==
    {[fn |-> "okay", nxt |-> n, wnd |-> w, seqn |-> wrapping_add(n, d),
      slen |-> l] :
        n \in OkayNxts, w \in OkayWnds, d \in OkayOffsets,
        l \in 0 .. MaxSegLen}

InitFn ==
    /\ connections = <<>>
    /\ buf = [kind |-> "none"]
    /\ out = <<>>
    /\ op = "start"
    /\ halt = "running"
    /\ overflow_checks = FALSE
    /\ progress = [q \in MapQuads |-> 0]
    /\ accepted = [q \in MapQuads |-> 0]
    /\ call \in BetweenCalls \cup OkayCalls
    /\ ret = [kind |-> "none"]

CallBetween ==
    /\ call.fn = "is_between_wrapped"
    /\ ret.kind = "none"
    /\ ret' = [kind |-> "bool",
               value |-> is_between_wrapped(call.start, call.x, call.end)]
    /\ UNCHANGED <<connections, buf, out, op, halt, overflow_checks,
                   progress, accepted, call>>

CallOkay ==
    /\ call.fn = "okay"
    /\ ret.kind = "none"
    /\ ret' = [kind |-> "bool",
               value |-> Acceptable([nxt |-> call.nxt, wnd |-> call.wnd],
                                    call.seqn, call.slen)]
    /\ UNCHANGED <<connections, buf, out, op, halt, overflow_checks,
                   progress, accepted, call>>

NextFn ==
    \/ CallBetween
    \/ CallOkay

SpecFn == InitFn /\ [][NextFn]_vars

-----------------------------------------------------------------------------
\* the four-tuple and the segment of the TCP frame in buf
BufQuad == buf.quad

BufSeg == buf.seg

-----------------------------------------------------------------------------
(* Claims *)

\* C1: every SYN {seq = s, window = w} for a four-tuple without a connection
\* makes accept insert a connection in SyncRcvd with irs = s and
\* recv.nxt = s + 1, and send exactly one segment, a SYN+ACK with seq = 0,
\* ack = s + 1 and window = 1024.
C1_PassiveOpen ==
    (op = "accept" /\ BufSeg.syn) =>
        /\ halt = "running"
        /\ BufQuad \in DOMAIN connections
        /\ connections[BufQuad].state = SyncRcvd
        /\ connections[BufQuad].recv.irs = BufSeg.seq
        /\ connections[BufQuad].recv.nxt = wrapping_add(BufSeg.seq, u32(1))
        /\ out = <<[seq |-> u32(0),
                    ackn |-> wrapping_add(BufSeg.seq, u32(1)),
                    syn |-> TRUE, ack |-> TRUE, fin |-> FALSE,
                    wnd |-> 1024, len |-> 0]>>

\* C2: after SYN {seq=1000, win=5840} is answered by SYN+ACK {seq=0,
\* ack=1001, win=1024}, the peer's ACK {seq=1001, ack=1} makes the endpoint
\* send a FIN with seq=1 and ack=1001 and leaves the connection in FinWait1.
C2_Handshake ==
    \A q \in Quads :
        /\ (progress[q] = 1 /\ buf = TcpFrame(q, Scenario[1])) =>
              /\ Len(out) = 1
              /\ out[1].syn /\ out[1].ack
              /\ out[1].seq = u32(0)
              /\ out[1].ackn = u32(1001)
              /\ out[1].wnd = 1024
        /\ (progress[q] = 2 /\ buf = TcpFrame(q, Scenario[2])) =>
              /\ halt = "running"
              /\ connections[q].state = FinWait1
              /\ Len(out) = 1
              /\ out[1].fin
              /\ out[1].seq = u32(1)
              /\ out[1].ackn = u32(1001)

\* C3: continuing the handshake scenario, the peer's ACK {seq=1001, ack=2}
\* moves the connection to FinWait2, and the peer's FIN {seq=1001, ack=2}
\* then makes the endpoint send an ACK with seq=2 and ack=1002 and moves the
\* connection to TimeWait.
C3_Close ==
    \A q \in Quads :
        /\ (progress[q] = 3 /\ buf = TcpFrame(q, Scenario[3])) =>
              /\ halt = "running"
              /\ connections[q].state = FinWait2
        /\ (progress[q] = 4 /\ buf = TcpFrame(q, Scenario[4])) =>
              /\ halt = "running"
              /\ connections[q].state = TimeWait
              /\ Len(out) = 1
              /\ out[1].ack /\ ~out[1].syn /\ ~out[1].fin
              /\ out[1].seq = u32(2)
              /\ out[1].ackn = u32(1002)

\* the segment of buf' fails the receive test of the connection it is for
Unacceptable_next ==
    /\ op' = "on_packet"
    /\ ~Acceptable(connections[buf'.quad].recv, buf'.seg.seq, SegLen(buf'.seg))

\* C4: in every connection state, on_packet answers a segment that fails the
\* acceptability test with exactly one empty segment (no payload, no SYN, no
\* FIN) carrying seq = send.nxt and ack = recv.nxt, and leaves the protocol
\* state, send.una, send.nxt and recv.nxt as they were, so a second such
\* segment gets the same response.
C4_OutOfWindow ==
    [][Unacceptable_next =>
        LET q == buf'.quad
            c == connections[q]
            d == connections'[q]
        IN  /\ halt' = "running"
            /\ Len(out') = 1
            /\ out'[1].len = 0 /\ ~out'[1].syn /\ ~out'[1].fin
            /\ out'[1].seq = c.send.nxt
            /\ out'[1].ackn = c.recv.nxt
            /\ d.state = c.state
            /\ d.send.una = c.send.una
            /\ d.send.nxt = c.send.nxt
            /\ d.recv.nxt = c.recv.nxt
            /\ on_packet(d, buf'.seg).out = out'
    ]_vars

\* C4 witness: after the handshake, a segment with seq = 9999 was answered
\* by one empty ACK.
C4_Witness ==
    /\ op = "on_packet"
    /\ BufSeg.seq = u32(9999)
    /\ connections[BufQuad].state = FinWait1
    /\ ~Acceptable(connections[BufQuad].recv, BufSeg.seq, SegLen(BufSeg))
    /\ Len(out) = 1
    /\ out[1].seq = connections[BufQuad].send.nxt
    /\ out[1].ackn = connections[BufQuad].recv.nxt

\* C5: whatever well-formed segments arrive, neither accept nor on_packet
\* aborts: no assertion failure, no unimplemented branch, no overflow.
C5_NeverAborts == halt = "running"

\* the segments a peer can try on connection c: every flag combination that
\* on_packet reads, sequence numbers at and around both edges of the receive
\* window, acknowledgment numbers from send.una - 1 to send.nxt + 1
ProbeSegments(c) ==
    LET seqs == {wrapping_sub(c.recv.nxt, u32(1)),
                 c.recv.nxt,
                 wrapping_add(c.recv.nxt, u32(1)),
                 wrapping_add(c.recv.nxt, u32(c.recv.wnd))}
                \cup (IF c.recv.wnd > 0
                      THEN {wrapping_add(c.recv.nxt, u32(c.recv.wnd - 1))}
                      ELSE {})
        acks == {wrapping_add(wrapping_sub(c.send.una, u32(1)), u32(k)) :
                    k \in 0 .. 5}
    IN  {Segment(FALSE, a, f, s, k, 5840, n) :
            a \in BOOLEAN, f \in BOOLEAN, s \in seqs, k \in acks,
            n \in 0 .. MaxPayload}

\* some sequence of at most n segments takes connection c to TimeWait without
\* ending the process
RECURSIVE Drivable(_, _)
Drivable(c, n) ==
    \/ c.state = TimeWait
    \/ /\ n > 0
       /\ \E seg \in ProbeSegments(c) :
             LET r == on_packet(c, seg)
             IN  r.why = "ok" /\ Drivable(r.c, n - 1)

\* C6: whatever segments have arrived (and whatever window the peer's SYN
\* advertised), a connection that is not yet in TimeWait can still be driven
\* to TimeWait by further segments of the peer.
C6_NeverStuck ==
    halt = "running" =>
        \A q \in DOMAIN connections : Drivable(connections[q], DriveDepth)

\* C7: a SYN with seq = 2^32 - 1 is accepted without failure, its SYN+ACK
\* carries ack = 0, and an ACK with seq = 0 then passes the receive test.
C7_WrapBoundary ==
    (op = "accept" /\ BufSeg.syn /\ BufSeg.seq = U32_MAX /\ BufSeg.wnd > 0) =>
        /\ halt = "running"
        /\ BufQuad \in DOMAIN connections
        /\ connections[BufQuad].recv.nxt = u32(0)
        /\ Len(out) = 1
        /\ out[1].syn /\ out[1].ack
        /\ out[1].ackn = u32(0)
        /\ Acceptable(connections[BufQuad].recv, u32(0),
                      SegLen(Segment(FALSE, TRUE, FALSE, u32(0), u32(1), 5840, 0)))

\* C8: for every connection, send.una <= send.nxt <= send.una + send.wnd
\* under wrapped ordering.
C8_SendWindow ==
    \A q \in DOMAIN connections :
        LET send == connections[q].send
        IN  /\ WrappedLe(send.una, send.nxt)
            /\ WrappedLe(send.nxt, wrapping_add(send.una, u32(send.wnd)))

\* C8 witness: the peer has acknowledged everything sent, the FIN included.
C8_Witness ==
    \E q \in DOMAIN connections :
        /\ op = "on_packet"
        /\ connections[q].send.una = connections[q].send.nxt
        /\ connections[q].send.una = u32(3)

\* C9: no on_packet call moves recv.nxt behind its previous value under
\* wrapped ordering: an acceptable segment sets recv.nxt = seg.seq + SEG.LEN,
\* which is not before the old recv.nxt, and an unacceptable one leaves it.
C9_RecvNxtMonotonic ==
    [][op' = "on_packet" =>
        LET q == buf'.quad
            c == connections[q]
            d == connections'[q]
            slen == SegLen(buf'.seg)
        IN  /\ WrappedLe(c.recv.nxt, d.recv.nxt)
            /\ d.recv.nxt =
                 IF Acceptable(c.recv, buf'.seg.seq, slen)
                 THEN wrapping_add(buf'.seg.seq, u32(slen))
                 ELSE c.recv.nxt
    ]_vars

\* C9 witness: an acceptable segment beyond recv.nxt has moved recv.nxt on
\* by more than its own length.
C9_Witness ==
    /\ op = "on_packet"
    /\ halt = "running"
    /\ connections[BufQuad].recv.nxt = wrapping_add(BufSeg.seq, u32(SegLen(BufSeg)))
    /\ connections[BufQuad].recv.irs = U32_MAX
    /\ BufSeg.seq = u32(1002)

\* an accepted segment moves recv.nxt on by at most recv.wnd - 1 + SEG.LEN
\* <= 65534 + 1466 (a 1504-byte frame less 40 bytes of headers, FIN and ACK),
\* so this many of them move it by less than 2^31 - 1 in all
AcceptedLimit == 2147483646 \div 67000

\* C10 as claimed: in every synchronized state recv.nxt is strictly greater
\* than irs under wrapped ordering, after any number of accepted segments.
C10_RecvNxtAfterIrs_claimed ==
    \A q \in DOMAIN connections :
        is_synchonized(connections[q].state) =>
            WrappedLt(connections[q].recv.irs, connections[q].recv.nxt)

\* C10 as amended: in every synchronized state recv.nxt is strictly greater
\* than irs under wrapped ordering as long as the connection has accepted at
\* most AcceptedLimit segments.
C10_RecvNxtAfterIrs ==
    \A q \in DOMAIN connections :
        (is_synchonized(connections[q].state) /\ accepted[q] <= AcceptedLimit) =>
            WrappedLt(connections[q].recv.irs, connections[q].recv.nxt)

\* C10 witness: a synchronized connection that has accepted many segments,
\* recv.nxt still ahead of irs.
C10_Witness ==
    \E q \in DOMAIN connections :
        /\ connections[q].state = TimeWait
        /\ accepted[q] = AcceptedLimit
        /\ WrappedLt(connections[q].recv.irs, connections[q].recv.nxt)

\* buf' holds, for a four-tuple that has a connection, a SYN without ACK or
\* FIN whose sequence number is that connection's irs
DuplicateSyn_next ==
    /\ buf'.kind = "tcp"
    /\ buf'.quad \in DOMAIN connections
    /\ buf'.seg.syn /\ ~buf'.seg.ack /\ ~buf'.seg.fin
    /\ buf'.seg.seq = connections[buf'.quad].recv.irs

\* a duplicate SYN went to on_packet, failed the receive test and was
\* answered by one empty ACK; the map and its connections are as they were
DuplicateSynRejected_next ==
    LET c == connections[buf'.quad]
    IN  /\ op' = "on_packet"
        /\ ~Acceptable(c.recv, buf'.seg.seq, SegLen(buf'.seg))
        /\ halt' = "running"
        /\ Len(out') = 1
        /\ out'[1].len = 0 /\ ~out'[1].syn /\ ~out'[1].fin
        /\ out'[1].seq = c.send.nxt
        /\ out'[1].ackn = c.recv.nxt
        /\ connections' = connections

\* C11 as claimed: a duplicate SYN (the sequence number of the original SYN,
\* no ACK) for a four-tuple that has a connection goes to on_packet and never
\* to accept, fails the receive test whatever recv.wnd is, gets exactly one
\* empty ACK, and neither adds a connection nor changes the existing one.
C11_DuplicateSyn_claimed ==
    [][DuplicateSyn_next => DuplicateSynRejected_next]_vars

\* C11 as amended: the same for a duplicate SYN that carries at most one byte
\* of payload and arrives while recv.nxt is ahead of irs in wrapped order.
C11_DuplicateSyn ==
    [][(/\ DuplicateSyn_next
        /\ buf'.seg.len <= 1
        /\ WrappedLt(connections[buf'.quad].recv.irs,
                     connections[buf'.quad].recv.nxt))
       => DuplicateSynRejected_next]_vars

\* C11 witness: a duplicate SYN was answered by an empty ACK after the
\* connection had left SyncRcvd.
C11_Witness ==
    /\ op = "on_packet"
    /\ BufSeg.syn /\ BufSeg.len = 0
    /\ BufSeg.seq = connections[BufQuad].recv.irs
    /\ connections[BufQuad].state = FinWait2
    /\ Len(out) = 1
    /\ out[1].ackn = connections[BufQuad].recv.nxt
    /\ DOMAIN connections = {BufQuad}

\* C12: a TCP segment without SYN for a four-tuple that has no connection
\* makes accept return none: no connection is inserted, no segment is sent,
\* and every existing connection is unchanged.
C12_StrayNonSyn ==
    [][(/\ buf'.kind = "tcp"
        /\ buf'.quad \notin DOMAIN connections
        /\ ~buf'.seg.syn)
       => /\ op' = "accept"
          /\ halt' = "running"
          /\ connections' = connections
          /\ out' = <<>>]_vars

\* C12 witness: a stray FIN+ACK was dropped while another four-tuple had a
\* connection past its handshake.
C12_Witness ==
    /\ op = "accept"
    /\ ~BufSeg.syn /\ BufSeg.fin /\ BufSeg.ack
    /\ BufQuad \notin DOMAIN connections
    /\ out = <<>>
    /\ \E q \in DOMAIN connections : connections[q].state = FinWait2

\* an acceptable segment arrives for a connection in Estab, FinWait1 or
\* FinWait2 with an acknowledgment number outside (send.una, send.nxt + 1)
Unacknowledgeable_next ==
    /\ buf'.kind = "tcp"
    /\ buf'.quad \in DOMAIN connections
    /\ halt = "running"
    /\ LET c == connections[buf'.quad]
       IN  /\ c.state \in {Estab, FinWait1, FinWait2}
           /\ Acceptable(c.recv, buf'.seg.seq, SegLen(buf'.seg))
           /\ ~is_between_wrapped(c.send.una, buf'.seg.ackn,
                                  wrapping_add(c.send.nxt, u32(1)))

BetweenMod(start, x, end) ==
    /\ wrapping_sub(x, start) # u32(0)
    /\ u32_lt(wrapping_sub(x, start), wrapping_sub(end, start))

\* C14: is_between_wrapped(start, x, end) is false when start = x, is the
\* same for (start + k, x + k, end + k) with wrapping addition, and is true
\* exactly when 0 < (x - start) mod 2^32 < (end - start) mod 2^32.
C14_BetweenWrapped ==
    (call.fn = "is_between_wrapped" /\ ret.kind = "bool")
    => /\ (call.start = call.x => ~ret.value)
       /\ ret.value = is_between_wrapped(wrapping_add(call.start, call.k),
                                         wrapping_add(call.x, call.k),
                                         wrapping_add(call.end, call.k))
       /\ ret.value = BetweenMod(call.start, call.x, call.end)

\* C14 witness: a call returned true with x below start and end in between,
\* and the shift by k carried start past 2^32 but not end.
C14_Witness ==
    /\ call.fn = "is_between_wrapped" /\ ret.kind = "bool"
    /\ ret.value
    /\ u32_lt(call.x, call.end) /\ u32_lt(call.end, call.start)
    /\ add_overflows(call.start, call.k)
    /\ ~add_overflows(call.end, call.k)

\* RCV.NXT =< s < RCV.NXT + RCV.WND, modulo 2^32
InWindow(nxt, wnd, s) == u32_lt(wrapping_sub(s, nxt), u32(wnd))

\* the segment receive test of RFC 793
RfcAcceptable(nxt, wnd, seqn, slen) ==
    IF slen = 0
    THEN IF wnd = 0 THEN seqn = nxt ELSE InWindow(nxt, wnd, seqn)
    ELSE IF wnd = 0
         THEN FALSE
         ELSE \/ InWindow(nxt, wnd, seqn)
              \/ InWindow(nxt, wnd, wrapping_add(seqn, u32(slen - 1)))

\* C19: the acceptability decision of on_packet equals the receive test of
\* RFC 793 for every recv.nxt, recv.wnd, seg.seq and SEG.LEN, the comparisons
\* taken modulo 2^32, also when recv.nxt + recv.wnd wraps past 2^32.
C19_ReceiveTest ==
    (call.fn = "okay" /\ ret.kind = "bool")
    => ret.value = RfcAcceptable(call.nxt, call.wnd, call.seqn, call.slen)

\* C19 witness: recv.nxt + recv.wnd wrapped, the first byte of the segment is
\* before the window, its last byte is in the wrapped part, and the test
\* passed.
C19_Witness ==
    /\ call.fn = "okay" /\ ret.kind = "bool"
    /\ ret.value
    /\ add_overflows(call.nxt, u32(call.wnd))
    /\ call.slen > 1
    /\ u32_lt(call.seqn, call.nxt)
    /\ wrapping_add(call.seqn, u32(call.slen - 1)) = u32(0)

\* C15: a frame that fails IPv4 parsing, is not protocol 6 or fails TCP
\* parsing leaves the map and every connection unchanged and transmits
\* nothing; a TCP frame for four-tuple q changes at most the entry keyed by
\* q and leaves every connection under another four-tuple unchanged.
C15_DispatcherFrame ==
    [][/\ buf'.kind \in {"bad_ip", "bad_protocol", "bad_tcp"}
          => (connections' = connections /\ out' = <<>>)
       /\ buf'.kind = "tcp"
          => /\ DOMAIN connections \subseteq DOMAIN connections'
             /\ DOMAIN connections' \subseteq DOMAIN connections \cup {buf'.quad}
             /\ \A q \in DOMAIN connections \ {buf'.quad} :
                    connections'[q] = connections[q]]_vars

\* C15 witness: the FIN of one peer closed its connection and a SYN+ACK went
\* to the other peer before, whose connection is still in FinWait1.
C15_Witness ==
    /\ op = "on_packet"
    /\ DOMAIN connections = MapQuads
    /\ connections[BufQuad].state = TimeWait
    /\ Len(out) = 1
    /\ \E q \in MapQuads \ {BufQuad} : connections[q].state = FinWait1

\* the SYN and FIN flags carried by the segments of a sequence
FlagsSent(segs) ==
    Cardinality({i \in DOMAIN segs : segs[i].syn})
        + Cardinality({i \in DOMAIN segs : segs[i].fin})

\* C16: send.nxt - send.iss (mod 2^32) is the number of SYN and FIN flags the
\* connection has transmitted: a new connection has send.nxt - send.iss equal
\* to the flags of the segments accept sent, and every later call moves
\* send.nxt by the flags of the segments it sent; SYN goes out once, with the
\* new connection, and FIN only on leaving Estab; the prototype's SYN and FIN
\* are clear when the call ends.
C16_FlagAccounting ==
    [][(buf'.kind = "tcp" /\ buf'.quad \in DOMAIN connections')
       => LET q == buf'.quad
              c == connections'[q]
          IN  /\ ~c.tcp.syn /\ ~c.tcp.fin
              /\ q \notin DOMAIN connections
                 => /\ wrapping_sub(c.send.nxt, c.send.iss)
                           = u32(FlagsSent(out'))
                    /\ Cardinality({i \in DOMAIN out' : out'[i].syn}) = 1
              /\ q \in DOMAIN connections
                 => /\ wrapping_sub(c.send.nxt, connections[q].send.nxt)
                           = u32(FlagsSent(out'))
                    /\ \A i \in DOMAIN out' : ~out'[i].syn
                    /\ (\E i \in DOMAIN out' : out'[i].fin)
                       => connections[q].state \in {SyncRcvd, Estab}]_vars

\* C17: a connection enters FinWait2 only with its FIN acknowledged, that
\* is with send.una = send.nxt, and an acceptable empty ACK of everything
\* sent (acknowledgment number send.nxt) takes a connection in FinWait1 to
\* FinWait2.
C17_FinAcked ==
    [][(buf'.kind = "tcp" /\ buf'.quad \in DOMAIN connections)
       => LET c == connections[buf'.quad]
              d == connections'[buf'.quad]
          IN  /\ (c.state # FinWait2 /\ d.state = FinWait2)
                 => d.send.una = d.send.nxt
              /\ (/\ halt = "running"
                  /\ c.state = FinWait1
                  /\ buf'.seg.ack /\ ~buf'.seg.fin /\ buf'.seg.len = 0
                  /\ Acceptable(c.recv, buf'.seg.seq, SegLen(buf'.seg))
                  /\ buf'.seg.ackn = c.send.nxt)
                 => d.state = FinWait2]_vars

\* ackn acknowledges the SYN: send.una < ackn <= send.nxt in wrapped order
AcksSyn(send, ackn) ==
    WrappedLt(send.una, ackn) /\ WrappedLe(ackn, send.nxt)

\* C18: a connection leaves SyncRcvd only on an acceptable segment with the
\* ACK flag whose acknowledgment number is beyond send.una = iss and not
\* beyond send.nxt; an acceptable ACK that does not acknowledge the SYN
\* leaves the connection in SyncRcvd with nothing transmitted.
C18_HandshakeCompletion ==
    [][(/\ buf'.kind = "tcp"
        /\ buf'.quad \in DOMAIN connections
        /\ connections[buf'.quad].state = SyncRcvd)
       => LET c == connections[buf'.quad]
              d == connections'[buf'.quad]
              okay == Acceptable(c.recv, buf'.seg.seq, SegLen(buf'.seg))
          IN  /\ d.state # SyncRcvd
                 => /\ okay
                    /\ buf'.seg.ack
                    /\ AcksSyn(c.send, buf'.seg.ackn)
              /\ (okay /\ buf'.seg.ack /\ ~AcksSyn(c.send, buf'.seg.ackn))
                 => (d.state = SyncRcvd /\ out' = <<>>)]_vars

\* the place of a state on the path SyncRcvd, Estab, FinWait1, FinWait2,
\* TimeWait; no place for any other state
StateRank(state) ==
    CASE state = SyncRcvd -> 1
      [] state = Estab -> 2
      [] state = FinWait1 -> 3
      [] state = FinWait2 -> 4
      [] state = TimeWait -> 5
      [] OTHER -> 0

\* C20: the state of a connection only moves forward along SyncRcvd, Estab,
\* FinWait1, FinWait2, TimeWait; no other state is ever reached; a connection
\* in TimeWait stays in TimeWait; no entry is ever removed from the map.
C20_StateForward ==
    [][/\ DOMAIN connections \subseteq DOMAIN connections'
       /\ \A q \in DOMAIN connections' : StateRank(connections'[q].state) > 0
       /\ \A q \in DOMAIN connections :
              /\ StateRank(connections'[q].state)
                     >= StateRank(connections[q].state)
              /\ connections[q].state = TimeWait
                 => connections'[q].state = TimeWait]_vars

\* C20 witness: an acceptable ACK that acknowledges something sent was
\* handled by a connection already in TimeWait.
C20_Witness ==
    /\ op = "on_packet"
    /\ halt = "running"
    /\ connections[BufQuad].state = TimeWait
    /\ BufSeg.ack /\ ~BufSeg.fin
    /\ connections[BufQuad].recv.nxt
           = wrapping_add(BufSeg.seq, u32(SegLen(BufSeg)))
    /\ SynAcked(connections[BufQuad].send, BufSeg.ackn)
    /\ out = <<>>

====
